---- MODULE Spec2Model ----
(***************************************************************************)
(* Single-server queue simulator: the random-number-to-time mappings, the  *)
(* queue recurrence and the summary statistics, in the Python app          *)
(* ("Single-Server Queue GUI.py", src/unnamed/part_000) and in its         *)
(* front-end port (src/app_design.py).                                     *)
(*                                                                         *)
(* Results of calls are records [err, val]: err = "" is a normal return    *)
(* of val, any other err is the message of the exception that was raised.  *)
(* An optional value is a sequence of length 0 (None / undefined) or of    *)
(* length 1 (the value).                                                   *)
(***************************************************************************)
EXTENDS Integers, Sequences, FiniteSets, TLC

\* ------------------------------------------------------------------------
\* Bounds of the model
\* ------------------------------------------------------------------------
\* The mapping functions are called on every integer from -RnSlack to
\* (upper end of the domain) + RnSlack.
RnSlack == 3
\* n_customers ranges over -1..MaxN; supplied lists have 0..MaxN elements.
MaxN == 3

None == << >>
Some(x) == << x >>
IsNone(o) == Len(o) = 0
Get(o) == o[1]

Ret(v) == [err |-> "", val |-> v]
Raise(msg) == [err |-> msg, val |-> 0]
Returned(r) == r.err = ""

Impls == {"py", "ts"}

\* ------------------------------------------------------------------------
\* Mapping functions
\* ------------------------------------------------------------------------
\* A plausible slip in the first band edge (<= instead of <).
inter_arrival_time_from_rn_edge(rn) ==
    IF rn <= 126 THEN Ret(1)
    ELSE IF rn < 251 THEN Ret(2)
    ELSE IF rn < 376 THEN Ret(3)
    ELSE IF rn < 501 THEN Ret(4)
    ELSE IF rn < 626 THEN Ret(5)
    ELSE IF rn < 751 THEN Ret(6)
    ELSE IF rn < 876 THEN Ret(7)
    ELSE IF rn <= 1000 THEN Ret(8)
    ELSE Raise("IAT RN must be in 1..1000")

\* Python, part_000:457-466
inter_arrival_time_from_rn(rn) ==
    IF rn < 126 THEN Ret(1)
    ELSE IF rn < 251 THEN Ret(2)
    ELSE IF rn < 376 THEN Ret(3)
    ELSE IF rn < 501 THEN Ret(4)
    ELSE IF rn < 626 THEN Ret(5)
    ELSE IF rn < 751 THEN Ret(6)
    ELSE IF rn < 876 THEN Ret(7)
    ELSE IF rn <= 1000 THEN Ret(8)
    ELSE Raise("IAT RN must be in 1..1000")

\* Python, part_000:468-475
service_time_from_rn(rn) ==
    IF rn < 30 THEN Ret(1)
    ELSE IF rn < 50 THEN Ret(2)
    ELSE IF rn < 60 THEN Ret(3)
    ELSE IF rn < 65 THEN Ret(4)
    ELSE IF rn < 75 THEN Ret(5)
    ELSE IF rn <= 100 THEN Ret(6)
    ELSE Raise("ST RN must be in 1..100")

\* Front-end port, app_design.py:58-68
interArrivalTimeFromRn(rn) ==
    IF rn < 1 \/ rn > 1000 THEN Raise("IAT RN must be 1..1000")
    ELSE IF rn < 126 THEN Ret(1)
    ELSE IF rn < 251 THEN Ret(2)
    ELSE IF rn < 376 THEN Ret(3)
    ELSE IF rn < 501 THEN Ret(4)
    ELSE IF rn < 626 THEN Ret(5)
    ELSE IF rn < 751 THEN Ret(6)
    ELSE IF rn < 876 THEN Ret(7)
    ELSE Ret(8)

\* Front-end port, app_design.py:70-78
serviceTimeFromRn(rn) ==
    IF rn < 1 \/ rn > 100 THEN Raise("ST RN must be 1..100")
    ELSE IF rn < 30 THEN Ret(1)
    ELSE IF rn < 50 THEN Ret(2)
    ELSE IF rn < 60 THEN Ret(3)
    ELSE IF rn < 65 THEN Ret(4)
    ELSE IF rn < 75 THEN Ret(5)
    ELSE Ret(6)

\* The mapping of one implementation, by kind ("iat" or "st").
MapIat(im, rn) == IF im = "py" THEN inter_arrival_time_from_rn(rn) ELSE interArrivalTimeFromRn(rn)
MapSt(im, rn) == IF im = "py" THEN service_time_from_rn(rn) ELSE serviceTimeFromRn(rn)

\* The messages of the two mappings' domain errors.
DomainErrors ==
    {"IAT RN must be in 1..1000", "ST RN must be in 1..100",
     "IAT RN must be 1..1000", "ST RN must be 1..100"}

\* Upper end of a mapping's declared domain (the lower end is 1).
DomainMax(kind) == IF kind = "iat" THEN 1000 ELSE 100

\* ------------------------------------------------------------------------
\* Helpers for the list code (Python and JavaScript index from 0)
\* ------------------------------------------------------------------------
Max(a, b) == IF a >= b THEN a ELSE b
Min(a, b) == IF a <= b THEN a ELSE b
\* s[k] of the source, k counted from 0
At(s, k) == s[k + 1]
\* [0] * n, new Array(n).fill(0)
Zeros(k) == [x \in 1..k |-> 0]
\* a fraction num / den that is kept unreduced; den > 0
Frac(a, b) == [num |-> a, den |-> b]

RECURSIVE Sum(_)
Sum(s) == IF Len(s) = 0 THEN 0 ELSE s[1] + Sum(Tail(s))

\* reduce(Math.max, 0), and max() of a column whose entries are >= 0
RECURSIVE MaxFrom(_, _)
MaxFrom(s, acc) == IF Len(s) = 0 THEN acc ELSE MaxFrom(Tail(s), Max(acc, s[1]))

\* The results of a mapping applied to each element of a list, in order.
MapEach(im, kind, rns) ==
    [x \in 1..Len(rns) |-> IF kind = "iat" THEN MapIat(im, rns[x]) ELSE MapSt(im, rns[x])]

\* Position of the first element whose mapping raised, 0 when none did.
FirstRaise(rs) ==
    IF \A x \in 1..Len(rs) : Returned(rs[x]) THEN 0
    ELSE CHOOSE x \in 1..Len(rs) : ~Returned(rs[x]) /\ \A y \in 1..(x - 1) : Returned(rs[y])

\* A mapping of a list that swallows the exception of an element and leaves
\* 0 in its place.
MapListZeroFill(im, kind, rns) ==
    LET rs == MapEach(im, kind, rns)
    IN  Ret([x \in 1..Len(rns) |-> rs[x].val])

\* [f(x) for x in rns], rns.map(f): the mapped list, or the exception of the
\* first element that raises (part_000:496,501; app_design.py:91,97)
MapList(im, kind, rns) ==
    LET rs == MapEach(im, kind, rns)
        k == FirstRaise(rs)
    IN  IF k = 0 THEN Ret([x \in 1..Len(rns) |-> rs[x].val]) ELSE Raise(rs[k].err)

\* The first inter-arrival time left as mapped.
FirstIatKept(iatv) == iatv

\* iat[0] = 0 (part_000:497, app_design.py:92)
FirstIatZero(iatv) == [iatv EXCEPT ![1] = 0]

\* The arrival loop adding the previous customer's inter-arrival time.
RECURSIVE ArrivalLoopShifted(_, _, _, _)
ArrivalLoopShifted(arr, iatv, k, nn) ==
    IF k >= nn THEN arr
    ELSE ArrivalLoopShifted([arr EXCEPT ![k + 1] = At(arr, k - 1) + At(iatv, k - 1)],
                            iatv, k + 1, nn)

\* for i in range(1, n): arrival[i] = arrival[i-1] + iat[i]
\* (part_000:499-500, app_design.py:95); k is the source's i
RECURSIVE ArrivalLoop(_, _, _, _)
ArrivalLoop(arr, iatv, k, nn) ==
    IF k >= nn THEN arr
    ELSE ArrivalLoop([arr EXCEPT ![k + 1] = At(arr, k - 1) + At(iatv, k)], iatv, k + 1, nn)

\* The length test with the second list forgotten.
LengthsOkIatOnly(a, b, nn) == Len(a) = nn

\* the negation of: len(rn_iat) != n or len(rn_st) != n
\* (part_000:493, app_design.py:89)
LengthsOk(a, b, nn) == ~(Len(a) # nn \/ Len(b) # nn)

\* Service begins at the arrival even when the server is still busy.
ServiceBeginAtArrival(prev_tse, arr) == arr

\* The server starts whichever comes first.
ServiceBeginMin(prev_tse, arr) == Min(prev_tse, arr)

\* tsb[i] = max(prev_tse, arrival[i]) (part_000:509, app_design.py:111)
ServiceBegin(prev_tse, arr) == Max(prev_tse, arr)

\* The operands of the idle-time subtraction swapped.
ServerIdleSwapped(tsb_i, prev_tse) == Max(0, prev_tse - tsb_i)

\* idle[i] = max(0, tsb[i] - prev_tse) (part_000:513, app_design.py:115)
ServerIdle(tsb_i, prev_tse) == Max(0, tsb_i - prev_tse)

\* "Cust": range(1, n+1), Cust: i + 1 (part_000:516, app_design.py:119)
CustOf(k) == k + 1

\* The data frame / rows built from the columns
\* (part_000:515-527, app_design.py:118-130)
Frame(nn, rns_iat, iatv, arr, rns_st, st, tsbv, wtv, tsev, tisv, idlev) ==
    [x \in 1..nn |->
        [Cust |-> CustOf(x - 1), RN_IAT |-> rns_iat[x], IAT |-> iatv[x],
         Arrival |-> arr[x], RN_ST |-> rns_st[x], ST |-> st[x], TSB |-> tsbv[x],
         Wait |-> wtv[x], TSE |-> tsev[x], TimeInSystem |-> tisv[x],
         ServerIdle |-> idlev[x]]]

Column(rows, f) == [x \in 1..Len(rows) |-> rows[x][f]]

\* Utilization as service time over idle time.
UtilizationOverIdle(total_service, total_idle) ==
    IF total_idle > 0 THEN Frac(total_service, total_idle) ELSE Frac(0, 1)

\* util = total_service / (total_service + total_idle) if that sum is > 0
\* else 0.0 (part_000:542, app_design.py:136)
Utilization(total_service, total_idle) ==
    IF total_service + total_idle > 0
    THEN Frac(total_service, total_service + total_idle)
    ELSE Frac(0, 1)

\* The horizon read from the first record.
HorizonFirst(tsev) == At(tsev, 0)

\* df["TSE"].iloc[-1], tse[n - 1] (part_000:543, app_design.py:137)
HorizonEnd(tsev) == At(tsev, Len(tsev) - 1)

\* max() of a non-empty column
MaxOf(s) == CHOOSE m \in {s[x] : x \in 1..Len(s)} : \A x \in 1..Len(s) : s[x] <= m

\* The numbers compute_summaries works out for a non-empty frame
\* (part_000:538-543); it renders them as text afterwards (part_000:544-559).
compute_summaries(rows) ==
    LET total_service == Sum(Column(rows, "ST"))
        total_idle == Sum(Column(rows, "ServerIdle"))
    IN  [avg_wait |-> Frac(Sum(Column(rows, "Wait")), Len(rows)),
         max_wait |-> MaxOf(Column(rows, "Wait")),
         total_idle |-> total_idle,
         util |-> Utilization(total_service, total_idle),
         horizon_end |-> HorizonEnd(Column(rows, "TSE"))]

\* The summary at the end of simulateQueue (app_design.py:132-137, 141);
\* nn is its n, and the columns are those the rows were built from.
simulateQueueSummary(nn, st, wtv, tsev, idlev) ==
    LET totalService == Sum(st)
        totalIdle == Sum(idlev)
    IN  [avg_wait |-> Frac(Sum(wtv), nn),
         max_wait |-> MaxFrom(wtv, 0),
         total_idle |-> totalIdle,
         util |-> Utilization(totalService, totalIdle),
         horizon_end |-> HorizonEnd(tsev)]

\* ------------------------------------------------------------------------
\* compute_summaries on any frame, the empty one included. A missing number
\* (NaN) is None.
\* ------------------------------------------------------------------------
\* Rows a frame handed to compute_summaries may hold, and the longest frame.
MaxRows == 2

\* Series.mean(): NaN on an empty column (part_000:540)
SeriesMean(s) == IF Len(s) = 0 THEN None ELSE Some(Frac(Sum(s), Len(s)))

\* Series.max(): NaN on an empty column (part_000:541)
SeriesMax(s) == IF Len(s) = 0 THEN None ELSE Some(MaxOf(s))

\* int(x): raises on NaN (part_000:541)
IntOf(x) == IF IsNone(x) THEN Raise("cannot convert float NaN to integer") ELSE Ret(Get(x))

\* compute_summaries(df) as a call: its numbers, or the exception of the
\* first statement that raises (part_000:537-559). float() of the NaN mean
\* at line 540 does not raise; int() of the NaN maximum at line 541 does.
compute_summaries_call(rows) ==
    LET avg_wait == SeriesMean(Column(rows, "Wait"))
        max_wait == IntOf(SeriesMax(Column(rows, "Wait")))
    IN  IF ~Returned(max_wait) THEN Raise(max_wait.err)
        ELSE Ret(compute_summaries(rows))

\* ------------------------------------------------------------------------
\* Newspaper selling: the cumulative table and inverse-transform sampling.
\* Probabilities and uniform draws are counted in units of 1e-7; sums of
\* probabilities are exact.
\* ------------------------------------------------------------------------
\* 1.0 and the tolerance 1e-6 of build_cdf, in units of 1e-7
One == 10000000
Tolerance == 10

\* Tables have 1..MaxKeys values.
MaxKeys == 3

Abs(x) == IF x >= 0 THEN x ELSE 0 - x

\* sorted(..., key=lambda x: x[0]): the keys in ascending order
RECURSIVE SortedKeys(_)
SortedKeys(S) ==
    IF S = {} THEN << >>
    ELSE LET m == CHOOSE x \in S : \A y \in S : x <= y
         IN  << m >> \o SortedKeys(S \ {m})

\* The loop of build_cdf over the sorted items: cumulative += p;
\* cdf.append((cumulative, value)) (part_000:18-20)
RECURSIVE CdfLoop(_, _, _, _)
CdfLoop(prob_dict, keys, cumulative, cdf) ==
    IF Len(keys) = 0 THEN [cumulative |-> cumulative, cdf |-> cdf]
    ELSE LET c == cumulative + prob_dict[keys[1]]
         IN  CdfLoop(prob_dict, Tail(keys), c, Append(cdf, << c, keys[1] >>))

\* build_cdf (part_000:10-24)
build_cdf(prob_dict) ==
    LET items == SortedKeys(DOMAIN prob_dict)
        r == CdfLoop(prob_dict, items, 0, << >>)
    IN  IF Abs(r.cumulative - One) > Tolerance
        THEN Raise("Probabilities must sum to 1.")
        ELSE Ret(r.cdf)

\* for upper_p, value in cdf: if u <= upper_p: return value; after the loop
\* return cdf[-1][1] (part_000:31-35); k is the position in cdf
RECURSIVE SampleScan(_, _, _)
SampleScan(cdf, u, k) ==
    IF k > Len(cdf) THEN cdf[Len(cdf)][2]
    ELSE IF u <= cdf[k][1] THEN cdf[k][2]
    ELSE SampleScan(cdf, u, k + 1)

\* The scan with a strict comparison: the first entry with u < upper_p.
sample_from_cdf_strict(cdf, u) ==
    LET hits == {k \in 1..Len(cdf) : u < cdf[k][1]}
    IN  IF hits = {} THEN cdf[Len(cdf)][2]
        ELSE cdf[CHOOSE k \in hits : \A h \in hits : k <= h][2]

\* sample_from_cdf (part_000:27-35)
sample_from_cdf(cdf, u) == SampleScan(cdf, u, 1)

\* ------------------------------------------------------------------------
\* Newspaper selling: one simulated day.  Money is counted in cents.
\* ------------------------------------------------------------------------
\* Days simulated: 1..MaxDays.
MaxDays == 2

\* The day types, numbered in the order sorted() puts the strings
\* "Fair" < "Good" < "Poor" in.
Fair == 1
Good == 2
Poor == 3

\* A probability given in hundredths, in units of 1e-7.
Hundredths(p) == p * (One \div 100)

\* DEFAULT_DAY_TYPE_PROBS (part_000:140-144)
DEFAULT_DAY_TYPE_PROBS ==
    [t \in {Good, Fair, Poor} |->
        Hundredths(IF t = Good THEN 35 ELSE IF t = Fair THEN 45 ELSE 20)]

\* One column of the demand table: the demand levels 40, 50, ..., 100.
DemandColumn(ps) == [d \in {30 + 10 * j : j \in 1..Len(ps)} |-> Hundredths(ps[(d - 30) \div 10])]

\* DEFAULT_DEMAND_DISTRIBUTIONS (part_000:148-152)
DEFAULT_DEMAND_DISTRIBUTIONS ==
    [t \in {Good, Fair, Poor} |->
        IF t = Good THEN DemandColumn(<< 3, 5, 15, 20, 35, 15, 7 >>)
        ELSE IF t = Fair THEN DemandColumn(<< 10, 18, 40, 20, 8, 4, 0 >>)
        ELSE DemandColumn(<< 44, 22, 16, 12, 6, 0, 0 >>)]

\* The defaults of the sidebar: selling, cost and salvage price in cents
selling_price == 50
cost_price == 33
salvage_price == 5

\* Daily profit that leaves the salvage value out.
DailyProfitNoSalvage(revenue, salvage, cost, lost_profit, include_lost_profit) ==
    IF include_lost_profit THEN revenue - cost - lost_profit
    ELSE revenue - cost

\* if include_lost_profit: ... else: ... (part_000:108-111)
DailyProfit(revenue, salvage, cost, lost_profit, include_lost_profit) ==
    IF include_lost_profit THEN revenue + salvage - cost - lost_profit
    ELSE revenue + salvage - cost

\* The body of the day loop: the record appended for one day
\* (part_000:90-130)
DayRecord(day, type_cdf, demand_cdfs, order_quantity, include_lost_profit, u_type, u_dem) ==
    LET day_type == sample_from_cdf(type_cdf, u_type)
        demand == sample_from_cdf(demand_cdfs[day_type], u_dem)
        sold == Min(demand, order_quantity)
        unsold == Max(order_quantity - demand, 0)
        unmet == Max(demand - order_quantity, 0)
        underage_profit_per_unit == selling_price - cost_price
        revenue == sold * selling_price
        cost == order_quantity * cost_price
        salvage == unsold * salvage_price
        lost_profit == unmet * underage_profit_per_unit
    IN  [Day |-> day, RandomForType |-> u_type, TypeOfDay |-> day_type,
         RandomForDemand |-> u_dem, Demand |-> demand, Ordered |-> order_quantity,
         Sold |-> sold, Unsold |-> unsold, Unmet |-> unmet, Revenue |-> revenue,
         Cost |-> cost, Salvage |-> salvage, LostProfit |-> lost_profit,
         DailyProfit |-> DailyProfit(revenue, salvage, cost, lost_profit,
                                     include_lost_profit)]

\* Series.cumsum(): the running total, kept in acc, entry by entry
RECURSIVE CumSum(_, _)
CumSum(s, acc) ==
    IF Len(s) = 0 THEN << >>
    ELSE << acc + s[1] >> \o CumSum(Tail(s), acc + s[1])

\* df = pd.DataFrame.from_records(records);
\* df["Cumulative Profit"] = df["Daily Profit"].cumsum() (part_000:132-133)
WithCumulativeProfit(records) ==
    [d \in 1..Len(records) |->
        [c \in DOMAIN records[d] \cup {"CumulativeProfit"} |->
            IF c = "CumulativeProfit" THEN CumSum(Column(records, "DailyProfit"), 0)[d]
            ELSE records[d][c]]]

\* ------------------------------------------------------------------------
\* The queue simulation as one call on the lists it works with
\* ------------------------------------------------------------------------
\* The passes i..nn-1 of the main loop on the columns c
\* (part_000:507-513, app_design.py:109-116)
RECURSIVE QueueLoop(_, _, _, _, _)
QueueLoop(c, arr, st, k, nn) ==
    IF k >= nn THEN c
    ELSE LET prev_tse == At(c.tse, k - 1)
             tsb_i == ServiceBegin(prev_tse, At(arr, k))
             wt_i == tsb_i - At(arr, k)
         IN  QueueLoop([tsb |-> [c.tsb EXCEPT ![k + 1] = tsb_i],
                        wt |-> [c.wt EXCEPT ![k + 1] = wt_i],
                        tse |-> [c.tse EXCEPT ![k + 1] = tsb_i + At(st, k)],
                        tis |-> [c.tis EXCEPT ![k + 1] = At(st, k) + wt_i],
                        idle |-> [c.idle EXCEPT ![k + 1] = ServerIdle(tsb_i, prev_tse)]],
                       arr, st, k + 1, nn)

\* The rows of a call whose lists a and b are already in place (supplied or
\* drawn), or the exception that ends it: the body of simulate_queue
\* (part_000:487-527) and of simulateQueue (app_design.py:84-130).
QueueRows(im, nn, a, b) ==
    IF nn <= 0
    THEN Raise(IF im = "py" THEN "n_customers must be >= 1" ELSE "nCustomers must be >= 1")
    ELSE IF ~LengthsOk(a, b, nn)
    THEN Raise(IF im = "py" THEN "Length of rn_iat and rn_st must equal n_customers."
                            ELSE "RN lengths must equal nCustomers")
    ELSE LET ri == MapList(im, "iat", a)
         IN  IF ~Returned(ri) THEN Raise(ri.err)
             ELSE LET iatv == FirstIatZero(ri.val)
                      arr == ArrivalLoop(Zeros(nn), iatv, 1, nn)
                      rs == MapList(im, "st", b)
                  IN  IF ~Returned(rs) THEN Raise(rs.err)
                      ELSE LET c0 == [tsb |-> Zeros(nn), wt |-> Zeros(nn),
                                      tse |-> [Zeros(nn) EXCEPT ![1] = At(rs.val, 0)],
                                      tis |-> [Zeros(nn) EXCEPT ![1] = At(rs.val, 0)],
                                      idle |-> Zeros(nn)]
                               c == QueueLoop(c0, arr, rs.val, 1, nn)
                           IN  Ret(Frame(nn, a, iatv, arr, b, rs.val,
                                         c.tsb, c.wt, c.tse, c.tis, c.idle))

\* simulate_queue(SimulationInput(n, rn_iat, rn_st)) with both lists given
simulate_queue(nn, a, b) == QueueRows("py", nn, a, b)

\* simulateQueue({nCustomers, rnIat, rnSt}) with both lists in place: its
\* rows and its summary (app_design.py:83-143)
simulateQueue(nn, a, b) ==
    LET r == QueueRows("ts", nn, a, b)
    IN  IF ~Returned(r) THEN r
        ELSE Ret([rows |-> r.val,
                  summary |-> simulateQueueSummary(nn, Column(r.val, "ST"),
                                  Column(r.val, "Wait"), Column(r.val, "TSE"),
                                  Column(r.val, "ServerIdle"))])

\* ------------------------------------------------------------------------
\* The two user interfaces of the queue simulator: texts, the random number
\* generator and its seeding.  A text is the sequence of its characters.
\* ------------------------------------------------------------------------
\* Run clicks in one session: at most MaxRuns; Reset clicks: at most MaxResets.
MaxRuns == 2
MaxResets == 1

Digits == << "0", "1", "2", "3", "4", "5", "6", "7", "8", "9" >>
IsDigit(ch) == \E d \in 1..Len(Digits) : Digits[d] = ch
DigitValue(ch) == (CHOOSE d \in 1..Len(Digits) : Digits[d] = ch) - 1

\* s.replace("\n", ",")
ReplaceNewlines(s) == [k \in 1..Len(s) |-> IF s[k] = "\n" THEN "," ELSE s[k]]

\* s.split(","): the pieces between the commas, cur being the piece in progress
RECURSIVE SplitCommas(_, _)
SplitCommas(s, cur) ==
    IF Len(s) = 0 THEN << cur >>
    ELSE IF s[1] = "," THEN << cur >> \o SplitCommas(Tail(s), << >>)
    ELSE SplitCommas(Tail(s), Append(cur, s[1]))

\* p.trim(), p.strip(): blanks removed at both ends
RECURSIVE TrimLeft(_)
TrimLeft(s) == IF Len(s) > 0 /\ s[1] = " " THEN TrimLeft(Tail(s)) ELSE s
RECURSIVE TrimRight(_)
TrimRight(s) ==
    IF Len(s) > 0 /\ s[Len(s)] = " " THEN TrimRight(SubSeq(s, 1, Len(s) - 1)) ELSE s
Trim(s) == TrimRight(TrimLeft(s))

\* parseInt(p, 10), int(p) on a numeral: the value of its leading digits,
\* acc being the value read so far
RECURSIVE ParseDigits(_, _)
ParseDigits(s, acc) ==
    IF Len(s) = 0 \/ ~IsDigit(s[1]) THEN acc
    ELSE ParseDigits(Tail(s), 10 * acc + DigitValue(s[1]))

\* parseCsvInts (app_design.py:145-152), parse_csv_ints (part_000:532-535)
parseCsvInts(s) ==
    LET parts == SplitCommas(ReplaceNewlines(s), << >>)
        trimmed == [k \in 1..Len(parts) |-> Trim(parts[k])]
        kept == SelectSeq(trimmed, LAMBDA q : Len(q) > 0)
    IN  [k \in 1..Len(kept) |-> ParseDigits(kept[k], 0)]

\* The generator behind Math.random() and random.randint: a state in
\* 0..255 that every draw advances, visiting all 256 states in turn.
PrngStep(x) == (x * 141 + 3) % 256

\* seedrandom(seed, {global: true}), random.seed(seed_text): the state the
\* characters of the seed determine
RECURSIVE PrngSeed(_, _)
PrngSeed(chars, acc) ==
    IF Len(chars) = 0 THEN acc
    ELSE PrngSeed(Tail(chars),
                  (acc * 31 + (IF IsDigit(chars[1]) THEN 48 + DigitValue(chars[1]) ELSE 32)) % 256)

\* 1 + Math.floor(Math.random() * range), random.randint(1, range): k draws
\* in a row from state x; the list drawn and the state left behind
RECURSIVE DrawList(_, _, _)
DrawList(x, k, range) ==
    IF k = 0 THEN [list |-> << >>, x |-> x]
    ELSE LET y == PrngStep(x)
             more == DrawList(y, k - 1, range)
         IN  [list |-> << 1 + ((y * range) \div 256) >> \o more.list, x |-> more.x]

\* The lists simulateQueue works with and the generator state it leaves:
\* `input.rnIat ?? ...` then `input.rnSt ?? ...` (app_design.py:87-88); a
\* count <= 0 throws before any draw.  a and b are None or Some(list).
DefaultsDrawn(nn, a, b, x) ==
    IF nn <= 0 THEN [rnIat |-> << >>, rnSt |-> << >>, x |-> x]
    ELSE LET da == IF IsNone(a) THEN DrawList(x, nn, 1000) ELSE [list |-> Get(a), x |-> x]
             db == IF IsNone(b) THEN DrawList(da.x, nn, 100) ELSE [list |-> Get(b), x |-> da.x]
         IN  [rnIat |-> da.list, rnSt |-> db.list, x |-> db.x]

\* The seed effect of App: useMemo(..., [seed, runKey]) runs its callback
\* when seed or runKey differs from the render before, and the callback
\* seeds only for a seed that is not blank (app_design.py:167-173)
SeedEffect(old_seed, old_key, new_seed, new_key, x) ==
    IF (new_seed # old_seed \/ new_key # old_key) /\ Len(Trim(new_seed)) > 0
    THEN PrngSeed(new_seed, 0)
    ELSE x

\* `if seed_text: random.seed(seed_text)` at every run of the script
\* (part_000:627-629)
ScriptSeed(seed_text, x) == IF Len(seed_text) > 0 THEN PrngSeed(seed_text, 0) ELSE x

VARIABLES
    map_impl,   \* which copy of the mapping functions is called
    map_kind,   \* "iat" or "st"
    map_rn,     \* the argument of the call
    map_ret,    \* None before the call, Some(result) after it
    map_prev    \* the result of the call on map_rn - 1, when it was made

\* One call of the queue simulation followed by its summary.
VARIABLES
    impl,       \* which copy runs: "py" (simulate_queue) or "ts" (simulateQueue)
    sim_in,     \* the SimulationInput: n_customers, rn_iat, rn_st (optional lists)
    pc,         \* the position in the call
    rn_iat, rn_st,              \* the lists after the defaults are filled in
    iat, arrival, stime,        \* the mapped times and the arrival times
    tsb, wt, tse, tis, idle,    \* the columns filled by the loop
    i,          \* the loop index of the source (counted from 0)
    df,         \* None, or Some(rows) once the call has returned
    summ,       \* None, or Some(summary)
    error       \* "" or the message of the exception that ended the call

\* One call of compute_summaries on a frame of its caller's choice.
VARIABLES
    sm_df,      \* the frame passed in
    sm_ret      \* None before the call, Some(result) after it

\* One table built by build_cdf and sampled once.
VARIABLES
    cdf_table,  \* the table {value: probability}
    cdf_u,          \* the uniform draw
    cdf_ret,        \* None, or Some(result of build_cdf)
    cdf_sample      \* None, or Some(value returned by sample_from_cdf)

\* One call of simulate_newspaper_selling.
VARIABLES
    nv_in,          \* the arguments: n_days, order_quantity, include_lost_profit
    nv_pc,          \* position in the call
    nv_type_cdf,    \* type_cdf
    nv_demand_cdfs, \* demand_cdfs
    nv_records,     \* records
    nv_df           \* None, or Some(the frame returned)

\* One session of a user interface of the queue simulator.
VARIABLES
    app_impl,     \* "ts": the App of app_design.py; "py": the Streamlit script
    nCustomers,   \* nCustomers, n_customers
    useCustomRn,  \* useCustomRn, use_custom
    rnIatText,    \* rnIatText, rn_iat_str
    rnStText,     \* rnStText, rn_st_str
    seed,         \* seed, seed_text
    runKey,       \* runKey
    app_rows,     \* rows, rows_df: None or Some(rows)
    app_summary,  \* summary, summ_df: None or Some(summary)
    app_error,    \* error, the message of st.error: None or Some(message)
    prng,         \* state of the global random number generator
    runs          \* Run clicks so far

mapvars == << map_impl, map_kind, map_rn, map_ret, map_prev >>
cdfvars == << cdf_table, cdf_u, cdf_ret, cdf_sample >>
nvvars == << nv_in, nv_pc, nv_type_cdf, nv_demand_cdfs, nv_records, nv_df >>
appvars == << app_impl, nCustomers, useCustomRn, rnIatText, rnStText, seed, runKey,
             app_rows, app_summary, app_error, prng, runs >>
summvars == << sm_df, sm_ret >>
locals == << rn_iat, rn_st, iat, arrival, stime, tsb, wt, tse, tis, idle, i >>
simvars == << impl, sim_in, pc, locals, df, summ, error >>


\* What a specification of one part leaves alone.
notmap == << simvars, summvars, cdfvars, nvvars, appvars >>
notsim == << mapvars, summvars, cdfvars, nvvars, appvars >>
notsumm == << mapvars, simvars, cdfvars, nvvars, appvars >>
notcdf == << mapvars, simvars, summvars, nvvars, appvars >>
notnv == << mapvars, simvars, summvars, cdfvars, appvars >>
notapp == << mapvars, simvars, summvars, cdfvars, nvvars >>

vars == << mapvars, simvars, summvars, cdfvars, nvvars, appvars >>

n == sim_in.n_customers

\* ------------------------------------------------------------------------
\* Values the model draws random numbers and supplied lists from
\* ------------------------------------------------------------------------
\* In-domain draws: the first and the last band of each mapping.
IatDraws == {1, 1000}
StDraws == {1, 100}
\* Supplied values: the draws, one value below the domain and one above it.
IatSupplied == IatDraws \cup {0, 1001}
StSupplied == StDraws \cup {101}

ListsOver(S) == UNION {[1..k -> S] : k \in 0..MaxN}

\* ------------------------------------------------------------------------
\* The mapping functions called on each integer of a range in turn
\* ------------------------------------------------------------------------
\* No local of the call is bound yet.
LocalsUnset ==
    /\ rn_iat = << >> /\ rn_st = << >>
    /\ iat = << >> /\ arrival = << >> /\ stime = << >>
    /\ tsb = << >> /\ wt = << >> /\ tse = << >> /\ tis = << >> /\ idle = << >>
    /\ i = 0

MapParked ==
    /\ map_impl = "py"
    /\ map_kind = "iat"
    /\ map_rn = 0
    /\ map_ret = None
    /\ map_prev = None

SimParked ==
    /\ impl = "py"
    /\ sim_in = [n_customers |-> 0, rn_iat |-> None, rn_st |-> None]
    /\ pc = "parked"
    /\ LocalsUnset
    /\ df = None
    /\ summ = None
    /\ error = ""

SummParked ==
    /\ sm_df = << >>
    /\ sm_ret = None

CdfParked ==
    /\ cdf_table = << >>
    /\ cdf_u = 0
    /\ cdf_ret = None
    /\ cdf_sample = None

NewsParked ==
    /\ nv_in = [n_days |-> 0, order_quantity |-> 0, include_lost_profit |-> FALSE]
    /\ nv_pc = "parked"
    /\ nv_type_cdf = << >>
    /\ nv_demand_cdfs = << >>
    /\ nv_records = << >>
    /\ nv_df = None

AppParked ==
    /\ app_impl = "none"
    /\ nCustomers = 0
    /\ useCustomRn = FALSE
    /\ rnIatText = << >>
    /\ rnStText = << >>
    /\ seed = << >>
    /\ runKey = 0
    /\ app_rows = None
    /\ app_summary = None
    /\ app_error = None
    /\ prng = 0
    /\ runs = 0

InitMap ==
    /\ map_impl \in Impls
    /\ map_kind \in {"iat", "st"}
    /\ map_rn = -RnSlack
    /\ map_ret = None
    /\ map_prev = None
    /\ SimParked
    /\ AppParked
    /\ SummParked
    /\ CdfParked
    /\ NewsParked

CallInterArrival ==
    /\ map_kind = "iat"
    /\ IsNone(map_ret)
    /\ map_ret' = Some(MapIat(map_impl, map_rn))
    /\ UNCHANGED << map_impl, map_kind, map_rn, map_prev, notmap >>

CallServiceTime ==
    /\ map_kind = "st"
    /\ IsNone(map_ret)
    /\ map_ret' = Some(MapSt(map_impl, map_rn))
    /\ UNCHANGED << map_impl, map_kind, map_rn, map_prev, notmap >>

NextRn ==
    /\ ~IsNone(map_ret)
    /\ map_rn < DomainMax(map_kind) + RnSlack
    /\ map_rn' = map_rn + 1
    /\ map_prev' = map_ret
    /\ map_ret' = None
    /\ UNCHANGED << map_impl, map_kind, notmap >>

NextMap == CallInterArrival \/ CallServiceTime \/ NextRn

SpecMap == InitMap /\ [][NextMap]_vars

\* ------------------------------------------------------------------------
\* simulate_queue (part_000:486-527) followed by compute_summaries as the
\* app calls them (part_000:651-652); simulateQueue (app_design.py:83-143)
\* ------------------------------------------------------------------------
Init ==
    /\ MapParked
    /\ AppParked
    /\ SummParked
    /\ CdfParked
    /\ NewsParked
    /\ impl \in Impls
    /\ sim_in \in [n_customers : -1..MaxN,
                   rn_iat : {None} \cup {Some(s) : s \in ListsOver(IatSupplied)},
                   rn_st : {None} \cup {Some(s) : s \in ListsOver(StSupplied)}]
    /\ pc = "call"
    /\ LocalsUnset
    /\ df = None
    /\ summ = None
    /\ error = ""

\* The count test that lets n = 0 through.
CheckCountNegativeOnly ==
    /\ pc = "call"
    /\ IF n < 0
       THEN /\ error' = (IF impl = "py" THEN "n_customers must be >= 1"
                                        ELSE "nCustomers must be >= 1")
            /\ pc' = "raised"
       ELSE /\ pc' = "defaults"
            /\ UNCHANGED error
    /\ UNCHANGED << notsim, impl, sim_in, locals, df, summ >>

\* if n <= 0: raise (part_000:487-489, app_design.py:84-85)
CheckCount ==
    /\ pc = "call"
    /\ IF n <= 0
       THEN /\ error' = (IF impl = "py" THEN "n_customers must be >= 1"
                                        ELSE "nCustomers must be >= 1")
            /\ pc' = "raised"
       ELSE /\ pc' = "defaults"
            /\ UNCHANGED error
    /\ UNCHANGED << notsim, impl, sim_in, locals, df, summ >>

\* The supplied list, or n draws from the domain
\* (part_000:491-492, app_design.py:87-88)
Defaults ==
    /\ pc = "defaults"
    /\ IF IsNone(sim_in.rn_iat)
       THEN rn_iat' \in [1..n -> IatDraws]
       ELSE rn_iat' = Get(sim_in.rn_iat)
    /\ IF IsNone(sim_in.rn_st)
       THEN rn_st' \in [1..n -> StDraws]
       ELSE rn_st' = Get(sim_in.rn_st)
    /\ pc' = "lengths"
    /\ UNCHANGED << notsim, impl, sim_in, iat, arrival, stime, tsb, wt, tse, tis, idle, i,
                    df, summ, error >>

\* part_000:493-494, app_design.py:89
CheckLengths ==
    /\ pc = "lengths"
    /\ IF LengthsOk(rn_iat, rn_st, n)
       THEN /\ pc' = "map_iat"
            /\ UNCHANGED error
       ELSE /\ error' = (IF impl = "py"
                         THEN "Length of rn_iat and rn_st must equal n_customers."
                         ELSE "RN lengths must equal nCustomers")
            /\ pc' = "raised"
    /\ UNCHANGED << notsim, impl, sim_in, locals, df, summ >>

\* iat = [inter_arrival_time_from_rn(x) for x in rn_iat]; iat[0] = 0
\* (part_000:496-497, app_design.py:91-92)
MapInterArrivals ==
    /\ pc = "map_iat"
    /\ LET r == MapList(impl, "iat", rn_iat)
       IN  IF Returned(r)
           THEN /\ iat' = FirstIatZero(r.val)
                /\ pc' = "arrivals"
                /\ UNCHANGED error
           ELSE /\ error' = r.err
                /\ pc' = "raised"
                /\ UNCHANGED iat
    /\ UNCHANGED << notsim, impl, sim_in, rn_iat, rn_st, arrival, stime, tsb, wt, tse, tis,
                    idle, i, df, summ >>

\* arrival = [0] * n and its loop (part_000:498-500, app_design.py:94-95)
Arrivals ==
    /\ pc = "arrivals"
    /\ arrival' = ArrivalLoop(Zeros(n), iat, 1, n)
    /\ pc' = "map_st"
    /\ UNCHANGED << notsim, impl, sim_in, rn_iat, rn_st, iat, stime, tsb, wt, tse, tis,
                    idle, i, df, summ, error >>

\* stime = [service_time_from_rn(x) for x in rn_st]
\* (part_000:501, app_design.py:97)
MapServiceTimes ==
    /\ pc = "map_st"
    /\ LET r == MapList(impl, "st", rn_st)
       IN  IF Returned(r)
           THEN /\ stime' = r.val
                /\ pc' = "first"
                /\ UNCHANGED error
           ELSE /\ error' = r.err
                /\ pc' = "raised"
                /\ UNCHANGED stime
    /\ UNCHANGED << notsim, impl, sim_in, rn_iat, rn_st, iat, arrival, tsb, wt, tse, tis,
                    idle, i, df, summ >>

\* The columns start as zeros; tse[0] = stime[0]; tis[0] = stime[0]
\* (part_000:503-505, app_design.py:99-107)
FirstCustomer ==
    /\ pc = "first"
    /\ tsb' = Zeros(n)
    /\ wt' = Zeros(n)
    /\ tse' = [Zeros(n) EXCEPT ![1] = At(stime, 0)]
    /\ tis' = [Zeros(n) EXCEPT ![1] = At(stime, 0)]
    /\ idle' = Zeros(n)
    /\ i' = 1
    /\ pc' = "loop"
    /\ UNCHANGED << notsim, impl, sim_in, rn_iat, rn_st, iat, arrival, stime, df, summ, error >>

\* One pass of: for i in range(1, n) (part_000:507-513, app_design.py:109-116)
LoopBody ==
    /\ pc = "loop"
    /\ i < n
    /\ LET prev_tse == At(tse, i - 1)
           tsb_i == ServiceBegin(prev_tse, At(arrival, i))
           wt_i == tsb_i - At(arrival, i)
       IN  /\ tsb' = [tsb EXCEPT ![i + 1] = tsb_i]
           /\ wt' = [wt EXCEPT ![i + 1] = wt_i]
           /\ tse' = [tse EXCEPT ![i + 1] = tsb_i + At(stime, i)]
           /\ tis' = [tis EXCEPT ![i + 1] = At(stime, i) + wt_i]
           /\ idle' = [idle EXCEPT ![i + 1] = ServerIdle(tsb_i, prev_tse)]
    /\ i' = i + 1
    /\ UNCHANGED << notsim, impl, sim_in, pc, rn_iat, rn_st, iat, arrival, stime, df, summ,
                    error >>

\* The loop is over: the frame is built and returned
\* (part_000:515-527, app_design.py:118-130)
ReturnFrame ==
    /\ pc = "loop"
    /\ i >= n
    /\ df' = Some(Frame(n, rn_iat, iat, arrival, rn_st, stime, tsb, wt, tse, tis, idle))
    /\ pc' = "summary"
    /\ UNCHANGED << notsim, impl, sim_in, locals, summ, error >>

\* compute_summaries(df) as the app calls it on the returned frame
\* (part_000:652); the summary simulateQueue returns with its rows
\* (app_design.py:132-142)
ComputeSummaries ==
    /\ pc = "summary"
    /\ summ' = Some(IF impl = "py" THEN compute_summaries(Get(df))
                                    ELSE simulateQueueSummary(n, stime, wt, tse, idle))
    /\ pc' = "done"
    /\ UNCHANGED << notsim, impl, sim_in, locals, df, error >>

Next ==
    \/ CheckCount
    \/ Defaults
    \/ CheckLengths
    \/ MapInterArrivals
    \/ Arrivals
    \/ MapServiceTimes
    \/ FirstCustomer
    \/ LoopBody
    \/ ReturnFrame
    \/ ComputeSummaries

Spec == Init /\ [][Next]_vars

\* ------------------------------------------------------------------------
\* compute_summaries called on its own (part_000:537-559)
\* ------------------------------------------------------------------------
\* The columns compute_summaries reads, with small values.
SummRows == [ST : {0, 1}, ServerIdle : {0, 2}, Wait : {0, 3}, TSE : {1, 5}]

InitSumm ==
    /\ MapParked
    /\ AppParked
    /\ SimParked
    /\ CdfParked
    /\ NewsParked
    /\ sm_df \in UNION {[1..k -> SummRows] : k \in 0..MaxRows}
    /\ sm_ret = None

CallComputeSummaries ==
    /\ IsNone(sm_ret)
    /\ sm_ret' = Some(compute_summaries_call(sm_df))
    /\ UNCHANGED << sm_df, notsumm >>

NextSumm == CallComputeSummaries

SpecSumm == InitSumm /\ [][NextSumm]_vars

\* ------------------------------------------------------------------------
\* build_cdf and sample_from_cdf called as simulate_newspaper_selling calls
\* them (part_000:81-84, 92-97)
\* ------------------------------------------------------------------------
\* The values of a table of k entries: 40, 50, ...
TableKeys(k) == {30 + 10 * j : j \in 1..k}
\* Probabilities of an entry: 0, 0.25, 0.5 less 5e-7, 0.5 and 1
TableProbs == {0, 2500000, 4999995, 5000000, 10000000}
\* rng.random() is in [0, 1): 0, 1e-7, 0.25, 0.5, 1 - 5e-7 and 1 - 1e-7
UniformDraws == {0, 1, 2500000, 5000000, 9999995, 9999999}

InitCdf ==
    /\ MapParked
    /\ AppParked
    /\ SimParked
    /\ SummParked
    /\ NewsParked
    /\ cdf_table \in UNION {[TableKeys(k) -> TableProbs] : k \in 1..MaxKeys}
    /\ cdf_u \in UniformDraws
    /\ cdf_ret = None
    /\ cdf_sample = None

\* type_cdf = build_cdf(day_type_probs) (part_000:81-84)
BuildCdf ==
    /\ IsNone(cdf_ret)
    /\ cdf_ret' = Some(build_cdf(cdf_table))
    /\ UNCHANGED << cdf_table, cdf_u, cdf_sample, notcdf >>

\* sample_from_cdf(type_cdf, u_type) (part_000:93, 97)
SampleFromCdf ==
    /\ ~IsNone(cdf_ret) /\ Returned(Get(cdf_ret))
    /\ IsNone(cdf_sample)
    /\ cdf_sample' = Some(sample_from_cdf(Get(cdf_ret).val, cdf_u))
    /\ UNCHANGED << cdf_table, cdf_u, cdf_ret, notcdf >>

NextCdf == BuildCdf \/ SampleFromCdf

SpecCdf == InitCdf /\ [][NextCdf]_vars

\* ------------------------------------------------------------------------
\* simulate_newspaper_selling (part_000:38-134) on the default tables and
\* prices
\* ------------------------------------------------------------------------
\* Order quantities below and at the sidebar's default of 70
OrderQuantities == {50, 70}
\* rng.random() for the type of day: 0.45 (Fair), 0.45 + 1e-7 (Good),
\* 1 - 1e-7 (Poor)
TypeDraws == {4500000, 4500001, 9999999}
\* rng.random() for the demand: 0, 0.5 and 1 - 1e-7
DemandDraws == {0, 5000000, 9999999}

InitNews ==
    /\ MapParked
    /\ AppParked
    /\ SimParked
    /\ SummParked
    /\ CdfParked
    /\ nv_in \in [n_days : 1..MaxDays, order_quantity : OrderQuantities,
                  include_lost_profit : BOOLEAN]
    /\ nv_pc = "cdfs"
    /\ nv_type_cdf = << >>
    /\ nv_demand_cdfs = << >>
    /\ nv_records = << >>
    /\ nv_df = None

\* type_cdf = build_cdf(day_type_probs); demand_cdfs = {...}; records = []
\* (part_000:81-86); a table build_cdf rejects ends the call
NewsBuildCdfs ==
    /\ nv_pc = "cdfs"
    /\ LET tc == build_cdf(DEFAULT_DAY_TYPE_PROBS)
           dc == [t \in DOMAIN DEFAULT_DEMAND_DISTRIBUTIONS |->
                     build_cdf(DEFAULT_DEMAND_DISTRIBUTIONS[t])]
       IN  IF Returned(tc) /\ \A t \in DOMAIN dc : Returned(dc[t])
           THEN /\ nv_type_cdf' = tc.val
                /\ nv_demand_cdfs' = [t \in DOMAIN dc |-> dc[t].val]
                /\ nv_pc' = "day"
           ELSE /\ UNCHANGED << nv_type_cdf, nv_demand_cdfs >>
                /\ nv_pc' = "raised"
    /\ UNCHANGED << nv_in, nv_records, nv_df, notnv >>

\* One pass of `for day in range(1, n_days + 1)` (part_000:90-130)
NewsDay ==
    /\ nv_pc = "day"
    /\ Len(nv_records) < nv_in.n_days
    /\ \E u_type \in TypeDraws, u_dem \in DemandDraws :
          nv_records' = Append(nv_records,
              DayRecord(Len(nv_records) + 1, nv_type_cdf, nv_demand_cdfs,
                        nv_in.order_quantity, nv_in.include_lost_profit,
                        u_type, u_dem))
    /\ UNCHANGED << nv_in, nv_pc, nv_type_cdf, nv_demand_cdfs, nv_df, notnv >>

\* After the loop: the frame with its Cumulative Profit column
\* (part_000:132-134)
NewsReturn ==
    /\ nv_pc = "day"
    /\ Len(nv_records) = nv_in.n_days
    /\ nv_df' = Some(WithCumulativeProfit(nv_records))
    /\ nv_pc' = "done"
    /\ UNCHANGED << nv_in, nv_type_cdf, nv_demand_cdfs, nv_records, notnv >>

NextNews == NewsBuildCdfs \/ NewsDay \/ NewsReturn

SpecNews == InitNews /\ [][NextNews]_vars

\* ------------------------------------------------------------------------
\* The App of app_design.py (159-208, 218-262) and the Streamlit script of
\* part_000 (618-654), one session each
\* ------------------------------------------------------------------------
\* useState<number>(10), value=10
InitialCustomers == 10
\* Counts typed into the number field; the Streamlit field has min_value=1
CustomerChoices == {0, 2, InitialCustomers}
\* "" and "1,1000"
IatTexts == {<< >>, << "1", ",", "1", "0", "0", "0" >>}
\* "" and "1\n 5,"
StTexts == {<< >>, << "1", "\n", " ", "5", "," >>}
\* "", " " and "42"
SeedTexts == {<< >>, << " " >>, << "4", "2" >>}
\* States the generator can be in when the page is loaded
NativeStates == {7, 200}

InitApp ==
    /\ MapParked
    /\ SimParked
    /\ SummParked
    /\ CdfParked
    /\ NewsParked
    /\ app_impl \in Impls
    /\ nCustomers = InitialCustomers
    /\ useCustomRn = FALSE
    /\ rnIatText = << >>
    /\ rnStText = << >>
    /\ seed = << >>
    /\ runKey = 0
    /\ app_rows = None
    /\ app_summary = None
    /\ app_error = None
    /\ prng \in NativeStates
    /\ runs = 0

\* onChange of the number field: setNCustomers (app_design.py:240)
SetNCustomers ==
    /\ app_impl = "ts"
    /\ \E v \in CustomerChoices \ {nCustomers} : nCustomers' = v
    /\ UNCHANGED << app_impl, useCustomRn, rnIatText, rnStText, seed, runKey,
                    app_rows, app_summary, app_error, prng, runs, notapp >>

\* onCheckedChange of the switch: setUseCustomRn (app_design.py:260)
SetUseCustomRn ==
    /\ app_impl = "ts"
    /\ useCustomRn' = ~useCustomRn
    /\ UNCHANGED << app_impl, nCustomers, rnIatText, rnStText, seed, runKey,
                    app_rows, app_summary, app_error, prng, runs, notapp >>

\* The two text areas of the "custom" tab: setRnIatText, setRnStText
\* (app_design.py:276-297)
SetRnTexts ==
    /\ app_impl = "ts"
    /\ useCustomRn
    /\ \/ \E s \in IatTexts \ {rnIatText} : rnIatText' = s /\ rnStText' = rnStText
       \/ \E s \in StTexts \ {rnStText} : rnStText' = s /\ rnIatText' = rnIatText
    /\ UNCHANGED << app_impl, nCustomers, useCustomRn, seed, runKey,
                    app_rows, app_summary, app_error, prng, runs, notapp >>

\* onChange of the seed field: setSeed, and the seed effect of the render
\* that follows (app_design.py:167-173, 250)
SetSeed ==
    /\ app_impl = "ts"
    /\ \E s \in SeedTexts \ {seed} :
          /\ seed' = s
          /\ prng' = SeedEffect(seed, runKey, s, runKey, prng)
    /\ UNCHANGED << app_impl, nCustomers, useCustomRn, rnIatText, rnStText, runKey,
                    app_rows, app_summary, app_error, runs, notapp >>

\* run of App whose catch leaves rows and summary as they were.
RunKeepResults ==
    /\ app_impl = "ts"
    /\ runs < MaxRuns
    /\ runs' = runs + 1
    /\ LET rnIat == IF useCustomRn THEN Some(parseCsvInts(rnIatText)) ELSE None
           rnSt == IF useCustomRn THEN Some(parseCsvInts(rnStText)) ELSE None
           d == DefaultsDrawn(nCustomers, rnIat, rnSt, prng)
           r == simulateQueue(nCustomers, d.rnIat, d.rnSt)
       IN  /\ prng' = d.x
           /\ IF Returned(r)
              THEN /\ app_error' = None
                   /\ app_rows' = Some(r.val.rows)
                   /\ app_summary' = Some(r.val.summary)
              ELSE /\ app_error' = Some(r.err)
                   /\ UNCHANGED << app_rows, app_summary >>
    /\ UNCHANGED << app_impl, nCustomers, useCustomRn, rnIatText, rnStText, seed,
                    runKey, notapp >>

\* run of App (app_design.py:179-196); the render that follows finds seed
\* and runKey as they were
Run ==
    /\ app_impl = "ts"
    /\ runs < MaxRuns
    /\ runs' = runs + 1
    /\ LET rnIat == IF useCustomRn THEN Some(parseCsvInts(rnIatText)) ELSE None
           rnSt == IF useCustomRn THEN Some(parseCsvInts(rnStText)) ELSE None
           d == DefaultsDrawn(nCustomers, rnIat, rnSt, prng)
           r == simulateQueue(nCustomers, d.rnIat, d.rnSt)
       IN  /\ prng' = d.x
           /\ IF Returned(r)
              THEN /\ app_error' = None
                   /\ app_rows' = Some(r.val.rows)
                   /\ app_summary' = Some(r.val.summary)
              ELSE /\ app_error' = Some(r.err)
                   /\ app_rows' = None
                   /\ app_summary' = None
    /\ UNCHANGED << app_impl, nCustomers, useCustomRn, rnIatText, rnStText, seed,
                    runKey, notapp >>

\* reset of App (app_design.py:198-208) and the seed effect of the render
\* that follows, which finds runKey changed and seed ""
Reset ==
    /\ app_impl = "ts"
    /\ runKey < MaxResets
    /\ nCustomers' = InitialCustomers
    /\ useCustomRn' = FALSE
    /\ rnIatText' = << >>
    /\ rnStText' = << >>
    /\ seed' = << >>
    /\ app_rows' = None
    /\ app_summary' = None
    /\ app_error' = None
    /\ runKey' = runKey + 1
    /\ prng' = SeedEffect(seed, runKey, << >>, runKey + 1, prng)
    /\ UNCHANGED << app_impl, runs, notapp >>

\* A change of one sidebar widget of the Streamlit script: the script runs
\* again from the top with run and reset False, so it seeds and shows no
\* result (part_000:623-646)
StWidget ==
    /\ app_impl = "py"
    /\ \/ \E v \in (CustomerChoices \ {0}) \ {nCustomers} :
             /\ nCustomers' = v
             /\ UNCHANGED << useCustomRn, rnIatText, rnStText, seed >>
       \/ /\ useCustomRn' = ~useCustomRn
          /\ UNCHANGED << nCustomers, rnIatText, rnStText, seed >>
       \/ /\ useCustomRn
          /\ \E s \in IatTexts \ {rnIatText} : rnIatText' = s
          /\ UNCHANGED << nCustomers, useCustomRn, rnStText, seed >>
       \/ /\ useCustomRn
          /\ \E s \in StTexts \ {rnStText} : rnStText' = s
          /\ UNCHANGED << nCustomers, useCustomRn, rnIatText, seed >>
       \/ /\ \E s \in SeedTexts \ {seed} : seed' = s
          /\ UNCHANGED << nCustomers, useCustomRn, rnIatText, rnStText >>
    /\ prng' = ScriptSeed(seed', prng)
    /\ app_rows' = None
    /\ app_summary' = None
    /\ app_error' = None
    /\ UNCHANGED << app_impl, runKey, runs, notapp >>

\* A click on "Run Simulation": the script runs with run True
\* (part_000:623-654); the text areas exist only under the toggle
StRun ==
    /\ app_impl = "py"
    /\ runs < MaxRuns
    /\ runs' = runs + 1
    /\ LET rn_iat_str == IF useCustomRn THEN rnIatText ELSE << >>
           rn_st_str == IF useCustomRn THEN rnStText ELSE << >>
           given_iat == IF useCustomRn /\ Len(Trim(rn_iat_str)) > 0
                     THEN Some(parseCsvInts(rn_iat_str)) ELSE None
           given_st == IF useCustomRn /\ Len(Trim(rn_st_str)) > 0
                    THEN Some(parseCsvInts(rn_st_str)) ELSE None
           d == DefaultsDrawn(nCustomers, given_iat, given_st, ScriptSeed(seed, prng))
           frame == simulate_queue(nCustomers, d.rnIat, d.rnSt)
           sm == IF Returned(frame) THEN compute_summaries_call(frame.val) ELSE frame
       IN  /\ prng' = d.x
           /\ IF Returned(frame) /\ Returned(sm)
              THEN /\ app_rows' = Some(frame.val)
                   /\ app_summary' = Some(sm.val)
                   /\ app_error' = None
              ELSE /\ app_rows' = None
                   /\ app_summary' = None
                   /\ app_error' = Some(IF Returned(frame) THEN sm.err ELSE frame.err)
    /\ UNCHANGED << app_impl, nCustomers, useCustomRn, rnIatText, rnStText, seed,
                    runKey, notapp >>

\* A click on "Reset": the script runs with reset True, st.experimental_rerun()
\* starts it again, and the widgets keep their values (part_000:623-644)
StReset ==
    /\ app_impl = "py"
    /\ runKey < MaxResets
    /\ runKey' = runKey + 1
    /\ prng' = ScriptSeed(seed, ScriptSeed(seed, prng))
    /\ app_rows' = None
    /\ app_summary' = None
    /\ app_error' = None
    /\ UNCHANGED << app_impl, nCustomers, useCustomRn, rnIatText, rnStText, seed,
                    runs, notapp >>

NextApp ==
    \/ SetNCustomers
    \/ SetUseCustomRn
    \/ SetRnTexts
    \/ SetSeed
    \/ Run
    \/ Reset
    \/ StWidget
    \/ StRun
    \/ StReset

SpecApp == InitApp /\ [][NextApp]_vars

\* ------------------------------------------------------------------------
\* Vocabulary of the properties
\* ------------------------------------------------------------------------
\* The bands as tables of lower edges: band k + 1 starts at the k-th edge.
IatEdges == {126, 251, 376, 501, 626, 751, 876}
StEdges == {30, 50, 60, 65, 75}
IatBand(rn) == 1 + Cardinality({e \in IatEdges : e <= rn})
StBand(rn) == 1 + Cardinality({e \in StEdges : e <= rn})

InDomain(kind, rn) == rn >= 1 /\ rn <= DomainMax(kind)
AllInDomain(kind, rns) == \A x \in 1..Len(rns) : InDomain(kind, rns[x])

CountErrors == {"n_customers must be >= 1", "nCustomers must be >= 1"}
LengthErrors ==
    {"Length of rn_iat and rn_st must equal n_customers.", "RN lengths must equal nCustomers"}

\* The call has returned its rows.
HasRows == ~IsNone(df)
Rows == Get(df)
\* Record k of the returned rows, k counted from 0 as in the specification.
Rec(k) == At(Rows, k)
\* The indices i >= 1 of the returned rows.
Later == 1..(Len(Rows) - 1)

\* ------------------------------------------------------------------------
\* C1: for n >= 1 and in-domain lists of length n the call returns, and its
\* records satisfy the reference recurrence on every field: arrivalTime[0]
\* = 0, and for i >= 1 arrivalTime[i] = arrivalTime[i-1] +
\* interArrivalTime[i], serviceStartTime[i] is the larger of
\* serviceEndTime[i-1] and arrivalTime[i], waitTime[i] = serviceStartTime[i]
\* - arrivalTime[i], serviceEndTime[i] = serviceStartTime[i] +
\* serviceTime[i], timeInSystem[i] = serviceTime[i] + waitTime[i],
\* serverIdleTime[i] = max(0, serviceStartTime[i] - serviceEndTime[i-1]);
\* the times are the bands of the random numbers.
\* ------------------------------------------------------------------------
C1_InDomainCall ==
    /\ n >= 1
    /\ Len(rn_iat) = n /\ Len(rn_st) = n
    /\ AllInDomain("iat", rn_iat) /\ AllInDomain("st", rn_st)

C1_Recurrence ==
    (pc \in {"summary", "done", "raised"} /\ C1_InDomainCall) =>
        /\ HasRows
        /\ Len(Rows) = n
        /\ Rec(0).Arrival = 0
        /\ \A k \in 0..(n - 1) :
              /\ Rec(k).RN_IAT = At(rn_iat, k)
              /\ Rec(k).RN_ST = At(rn_st, k)
              /\ Rec(k).ST = StBand(Rec(k).RN_ST)
        /\ \A k \in Later :
              /\ Rec(k).IAT = IatBand(Rec(k).RN_IAT)
              /\ Rec(k).Arrival = Rec(k - 1).Arrival + Rec(k).IAT
              /\ Rec(k).TSB \in {Rec(k - 1).TSE, Rec(k).Arrival}
              /\ Rec(k).TSB >= Rec(k - 1).TSE
              /\ Rec(k).TSB >= Rec(k).Arrival
              /\ Rec(k).Wait = Rec(k).TSB - Rec(k).Arrival
              /\ Rec(k).TSE = Rec(k).TSB + Rec(k).ST
              /\ Rec(k).TimeInSystem = Rec(k).ST + Rec(k).Wait
              /\ Rec(k).ServerIdle =
                    (IF Rec(k).TSB - Rec(k - 1).TSE > 0 THEN Rec(k).TSB - Rec(k - 1).TSE ELSE 0)

\* An in-domain call of three customers has returned; one customer waited and
\* the server was idle before another.
C1_Witness ==
    /\ pc = "done" /\ C1_InDomainCall /\ n >= 3
    /\ \E k \in Later : Rec(k).Wait > 0
    /\ \E k \in Later : Rec(k).ServerIdle > 0

\* ------------------------------------------------------------------------
\* C2: on every rn of its domain each mapping returns the band of rn: for
\* the inter-arrival mapping 1 below 126, 2 below 251, 3 below 376, 4 below
\* 501, 5 below 626, 6 below 751, 7 below 876 and 8 up to 1000; for the
\* service-time mapping 1 below 30, 2 below 50, 3 below 60, 4 below 65, 5
\* below 75 and 6 up to 100. The result lies in 1..8 (1..6) and is not
\* smaller than the result on rn - 1.
\* ------------------------------------------------------------------------
C2_Bands ==
    (~IsNone(map_ret) /\ InDomain(map_kind, map_rn)) =>
        LET r == Get(map_ret)
        IN  /\ Returned(r)
            /\ map_kind = "iat" => r.val = IatBand(map_rn) /\ r.val \in 1..8
            /\ map_kind = "st" => r.val = StBand(map_rn) /\ r.val \in 1..6
            /\ (~IsNone(map_prev) /\ InDomain(map_kind, map_rn - 1)) =>
                  Returned(Get(map_prev)) /\ Get(map_prev).val <= r.val

\* The inter-arrival mapping was called on the first rn of its second band
\* after the last rn of its first band.
C2_Witness ==
    /\ map_kind = "iat" /\ map_rn = 126
    /\ ~IsNone(map_ret) /\ Get(map_ret) = Ret(2)
    /\ ~IsNone(map_prev) /\ Get(map_prev) = Ret(1)

\* ------------------------------------------------------------------------
\* C3: each mapping fails with a domain error on every integer outside its
\* domain, below it as well as above it, in both copies.
\* ------------------------------------------------------------------------
C3_DomainRejection ==
    (~IsNone(map_ret) /\ ~InDomain(map_kind, map_rn)) =>
        Get(map_ret).err \in DomainErrors

\* ------------------------------------------------------------------------
\* C4: in a call with n >= 1, when a supplied list has a length other than
\* n the call ends with the length error, no mapping is applied and no
\* record or summary is produced; also when the list holds out-of-domain
\* values.
\* ------------------------------------------------------------------------
C4_Mismatch ==
    /\ n >= 1
    /\ \/ ~IsNone(sim_in.rn_iat) /\ Len(Get(sim_in.rn_iat)) # n
       \/ ~IsNone(sim_in.rn_st) /\ Len(Get(sim_in.rn_st)) # n

C4_LengthMismatchFirst ==
    (pc # "parked" /\ C4_Mismatch) =>
        /\ pc \in {"call", "defaults", "lengths", "raised"}
        /\ pc = "raised" => error \in LengthErrors
        /\ iat = << >> /\ stime = << >> /\ arrival = << >>
        /\ IsNone(df) /\ IsNone(summ)

\* A call whose too long rn_iat list also holds an out-of-domain value has
\* ended with the length error.
C4_Witness ==
    /\ pc = "raised" /\ error \in LengthErrors /\ n >= 1
    /\ ~IsNone(sim_in.rn_iat)
    /\ Len(Get(sim_in.rn_iat)) > n
    /\ ~AllInDomain("iat", Get(sim_in.rn_iat))

\* ------------------------------------------------------------------------
\* C5: record 0 of every returned sequence has interArrivalTime 0,
\* arrivalTime 0, serviceStartTime 0, waitTime 0, serverIdleTime 0,
\* serviceEndTime = timeInSystem = serviceTime[0], whatever its raw draw,
\* which RN_IAT still reports.
\* ------------------------------------------------------------------------
C5_FirstCustomer ==
    HasRows =>
        /\ Rec(0).IAT = 0 /\ Rec(0).Arrival = 0 /\ Rec(0).TSB = 0
        /\ Rec(0).Wait = 0 /\ Rec(0).ServerIdle = 0
        /\ Rec(0).TSE = Rec(0).ST /\ Rec(0).TimeInSystem = Rec(0).ST
        /\ Rec(0).ST = MapSt(impl, Rec(0).RN_ST).val
        /\ Rec(0).RN_IAT = At(rn_iat, 0)
        /\ ~IsNone(sim_in.rn_iat) => Rec(0).RN_IAT = At(Get(sim_in.rn_iat), 0)

\* A single customer whose raw draw maps to the last band was returned.
C5_Witness ==
    /\ HasRows /\ n = 1
    /\ Rec(0).RN_IAT = 1000 /\ MapIat(impl, 1000).val = 8

\* ------------------------------------------------------------------------
\* C6: for i >= 1, waitTime[i] and serverIdleTime[i] are never both
\* positive; both are zero when serviceStartTime[i] = serviceEndTime[i-1] =
\* arrivalTime[i], and otherwise exactly one of them is positive.
\* ------------------------------------------------------------------------
C6_Conservation ==
    HasRows =>
        \A k \in Later :
            LET meet == Rec(k).TSB = Rec(k - 1).TSE /\ Rec(k - 1).TSE = Rec(k).Arrival
            IN  /\ ~(Rec(k).Wait > 0 /\ Rec(k).ServerIdle > 0)
                /\ meet => Rec(k).Wait = 0 /\ Rec(k).ServerIdle = 0
                /\ ~meet => (Rec(k).Wait > 0) # (Rec(k).ServerIdle > 0)

\* Returned rows in which one customer arrived exactly when the server became
\* free and another had to wait.
C6_Witness ==
    /\ HasRows
    /\ \E k \in Later : Rec(k).Wait = 0 /\ Rec(k).ServerIdle = 0
    /\ \E k \in Later : Rec(k).Wait > 0

\* ------------------------------------------------------------------------
\* C7: in every returned sequence waitTime[i] >= 0 and serverIdleTime[i] >=
\* 0 for all i, and arrivalTime[i] >= arrivalTime[i-1] for i >= 1.
\* ------------------------------------------------------------------------
C7_NonNegativeMonotonic ==
    HasRows =>
        /\ \A k \in 0..(Len(Rows) - 1) : Rec(k).Wait >= 0 /\ Rec(k).ServerIdle >= 0
        /\ \A k \in Later : Rec(k).Arrival >= Rec(k - 1).Arrival

\* Returned rows whose last customer arrived while the server was busy with
\* the one before, who had waited too.
C7_Witness ==
    /\ HasRows /\ Len(Rows) >= 3
    /\ Rec(Len(Rows) - 1).Arrival < Rec(Len(Rows) - 2).TSE
    /\ Rec(Len(Rows) - 2).Wait > 0

\* ------------------------------------------------------------------------
\* C8: a call either fails and returns no rows and no summary, or returns
\* exactly n rows numbered 1..n in order with every field filled in; no
\* rows exist before the call returns.
\* ------------------------------------------------------------------------
C8_NoPartialOutput ==
    /\ pc \in {"raised", "call", "defaults", "lengths", "map_iat", "arrivals", "map_st",
               "first", "loop"} => IsNone(df) /\ IsNone(summ)
    /\ pc = "raised" => error # ""
    /\ HasRows =>
          /\ error = ""
          /\ Len(Rows) = n
          /\ \A k \in 0..(n - 1) :
                /\ Rec(k).Cust = k + 1
                /\ Rec(k).RN_IAT = At(rn_iat, k)
                /\ Rec(k).RN_ST = At(rn_st, k)
                /\ Rec(k).ST \in 1..6
                /\ k >= 1 => Rec(k).IAT \in 1..8
                /\ Rec(k).TSE = Rec(k).TSB + Rec(k).ST
                /\ Rec(k).TimeInSystem = Rec(k).ST + Rec(k).Wait
                /\ Rec(k).TSB = Rec(k).Arrival + Rec(k).Wait

\* A call failed on the last value of a supplied list, after two in-domain
\* values, and returned nothing.
C8_Witness ==
    /\ pc = "raised" /\ error \in DomainErrors /\ n = 3
    /\ IsNone(df)
    /\ AllInDomain("iat", rn_iat)
    /\ InDomain("st", At(rn_st, 0)) /\ InDomain("st", At(rn_st, 1))
    /\ ~InDomain("st", At(rn_st, 2))

\* ------------------------------------------------------------------------
\* C9: the utilization of every summary is totalServiceTime over
\* totalServiceTime + totalIdleTime with 0 <= totalServiceTime <=
\* totalServiceTime + totalIdleTime, so it lies in 0..1; its denominator is
\* never 0, and it is 0 when that sum is 0.
\* ------------------------------------------------------------------------
C9_UtilizationBound ==
    ~IsNone(summ) =>
        LET u == Get(summ).util
            totalService == Sum(Column(Rows, "ST"))
            totalIdle == Sum(Column(Rows, "ServerIdle"))
        IN  /\ u.den > 0
            /\ 0 <= u.num /\ u.num <= u.den
            /\ totalService + totalIdle > 0 =>
                  u.num * (totalService + totalIdle) = totalService * u.den
            /\ totalService + totalIdle = 0 => u.num = 0

\* A summary whose utilization is strictly between 0 and 1.
C9_Witness ==
    /\ ~IsNone(summ)
    /\ Get(summ).util.num > 0
    /\ Get(summ).util.num < Get(summ).util.den

\* ------------------------------------------------------------------------
\* C10: in the summary of returned rows the maximum wait is the largest
\* waitTime, total idle is the sum of serverIdleTime, average wait is the sum
\* of waitTime over n, and horizon end is the serviceEndTime of the last
\* record; computing the summary leaves the rows as they were built.
\* ------------------------------------------------------------------------
C10_SummaryAggregation ==
    ~IsNone(summ) =>
        LET s == Get(summ)
        IN  /\ \E k \in 0..(n - 1) : s.max_wait = Rec(k).Wait
            /\ \A k \in 0..(n - 1) : s.max_wait >= Rec(k).Wait
            /\ s.total_idle = Sum(Column(Rows, "ServerIdle"))
            /\ s.avg_wait.den > 0
            /\ s.avg_wait.num * n = Sum(Column(Rows, "Wait")) * s.avg_wait.den
            /\ s.horizon_end = Rec(n - 1).TSE
            /\ Rows = Frame(n, rn_iat, iat, arrival, rn_st, stime, tsb, wt, tse, tis, idle)

\* The summary of three customers of whom the second waited longest.
C10_Witness ==
    /\ ~IsNone(summ) /\ n = 3
    /\ Get(summ).max_wait > Rec(2).Wait
    /\ Get(summ).max_wait > 0
    /\ Get(summ).total_idle > 0

\* ------------------------------------------------------------------------
\* C11: a call with n < 1 ends with the invalid-count error at once: the
\* lists are never filled in or drawn, their lengths are never tested, and
\* no column, row or summary exists, whether or not lists were supplied.
\* ------------------------------------------------------------------------
C11_InvalidCountFirst ==
    (pc # "parked" /\ n < 1) =>
        /\ pc \in {"call", "raised"}
        /\ pc = "raised" => error \in CountErrors
        /\ LocalsUnset
        /\ IsNone(df) /\ IsNone(summ)

\* A call with n = 0 and two supplied empty lists has ended with the count
\* error.
C11_Witness ==
    /\ pc = "raised" /\ error \in CountErrors /\ n = 0
    /\ sim_in.rn_iat = Some(<< >>) /\ sim_in.rn_st = Some(<< >>)

\* ------------------------------------------------------------------------
\* C16: in returned rows serviceEndTime[k] is the sum of serviceTime[0..k]
\* plus the sum of serverIdleTime[0..k] for every k; so the horizon end of
\* the summary is totalServiceTime + totalIdleTime, the denominator of the
\* utilization, whose numerator is totalServiceTime.
\* ------------------------------------------------------------------------
C16_HorizonAccounting ==
    /\ HasRows =>
          \A k \in 0..(Len(Rows) - 1) :
              Rec(k).TSE = Sum(SubSeq(Column(Rows, "ST"), 1, k + 1))
                           + Sum(SubSeq(Column(Rows, "ServerIdle"), 1, k + 1))
    /\ ~IsNone(summ) =>
          LET s == Get(summ)
              totalService == Sum(Column(Rows, "ST"))
          IN  /\ s.horizon_end = totalService + s.total_idle
              /\ s.horizon_end = Rec(n - 1).TSE
              /\ s.util.num * s.horizon_end = totalService * s.util.den

\* A summary of three customers with idle time before two of them.
C16_Witness ==
    /\ ~IsNone(summ) /\ n = 3
    /\ Rec(1).ServerIdle > 0 /\ Rec(2).ServerIdle > 0
    /\ Get(summ).horizon_end > Sum(Column(Rows, "ST"))

\* ------------------------------------------------------------------------
\* C17: in returned rows, for i >= 1, waitTime[i] = max(0, waitTime[i-1] +
\* serviceTime[i-1] - interArrivalTime[i]) and serverIdleTime[i] = max(0,
\* interArrivalTime[i] - waitTime[i-1] - serviceTime[i-1]); serviceEndTime
\* is strictly increasing and serviceStartTime[i] >= serviceEndTime[i-1].
\* ------------------------------------------------------------------------
C17_Lindley ==
    HasRows =>
        \A k \in Later :
            LET backlog == Rec(k - 1).Wait + Rec(k - 1).ST - Rec(k).IAT
            IN  /\ Rec(k).Wait = (IF backlog > 0 THEN backlog ELSE 0)
                /\ Rec(k).ServerIdle = (IF backlog < 0 THEN 0 - backlog ELSE 0)
                /\ Rec(k).TSE > Rec(k - 1).TSE
                /\ Rec(k).TSB >= Rec(k - 1).TSE

\* Returned rows in which the wait built up over two customers in a row.
C17_Witness ==
    /\ HasRows /\ Len(Rows) = 3
    /\ Rec(1).Wait > 0 /\ Rec(2).Wait > Rec(1).Wait

\* ------------------------------------------------------------------------
\* C18: on the same n and the same supplied lists the two copies end the
\* same way: both fail, or both return rows equal in IAT, Arrival, ST, TSB,
\* Wait, TSE, TimeInSystem and ServerIdle.
\* ------------------------------------------------------------------------
Times(rows) ==
    [x \in 1..Len(rows) |->
        << rows[x].IAT, rows[x].Arrival, rows[x].ST, rows[x].TSB, rows[x].Wait,
           rows[x].TSE, rows[x].TimeInSystem, rows[x].ServerIdle >>]

BothSupplied == ~IsNone(sim_in.rn_iat) /\ ~IsNone(sim_in.rn_st)

\* The other copy's result on the input of this call.
OtherCopy ==
    QueueRows(IF impl = "py" THEN "ts" ELSE "py", n,
              Get(sim_in.rn_iat), Get(sim_in.rn_st))

C18_CopiesAgree ==
    (pc \in {"raised", "summary", "done"} /\ BothSupplied) =>
        /\ pc = "raised" <=> ~Returned(OtherCopy)
        /\ HasRows => Times(Rows) = Times(OtherCopy.val)

\* The stepwise call and the call as one operator end the same way.
StepsAgreeWithCall ==
    pc \in {"raised", "summary", "done"} =>
        LET r == QueueRows(impl, n, IF n >= 1 THEN rn_iat ELSE << >>,
                           IF n >= 1 THEN rn_st ELSE << >>)
        IN  /\ pc = "raised" <=> ~Returned(r)
            /\ pc = "raised" => error = r.err
            /\ HasRows => Rows = r.val
            /\ (pc = "done" /\ impl = "ts") =>
                  Get(summ) = simulateQueue(n, rn_iat, rn_st).val.summary


\* ------------------------------------------------------------------------
\* C12: given an empty frame compute_summaries fails with an empty-input
\* error of its own and returns no summary.
\* ------------------------------------------------------------------------
\* The messages compute_summaries raises for an empty frame: it has none.
EmptyInputErrors == {}

C12_EmptyInputRejected ==
    (~IsNone(sm_ret) /\ Len(sm_df) = 0) =>
        /\ ~Returned(Get(sm_ret))
        /\ Get(sm_ret).err \in EmptyInputErrors


\* ------------------------------------------------------------------------
\* C14: build_cdf rejects a table whose probabilities do not sum to 1 and
\* otherwise returns its values in ascending order, each with the running
\* cumulative probability; sample_from_cdf(cdf, u) returns the value of the
\* first entry whose cumulative upper bound is >= u, and the last value
\* when no entry qualifies.
\* ------------------------------------------------------------------------
\* The probability of the values of the table up to v.
MassUpTo(v) == Sum([j \in 1..Len(SortedKeys({w \in DOMAIN cdf_table : w <= v})) |->
                       cdf_table[SortedKeys({w \in DOMAIN cdf_table : w <= v})[j]]])
TotalMass == MassUpTo(CHOOSE v \in DOMAIN cdf_table : \A w \in DOMAIN cdf_table : w <= v)

C14_InverseTransform ==
    ~IsNone(cdf_ret) =>
        LET r == Get(cdf_ret)
            t == r.val
            hits == {j \in 1..Len(t) : t[j][1] >= cdf_u}
        IN  /\ Returned(r) <=> (TotalMass - One <= Tolerance /\ One - TotalMass <= Tolerance)
            /\ Returned(r) =>
                  /\ Len(t) = Cardinality(DOMAIN cdf_table)
                  /\ \A j \in 1..Len(t) :
                        /\ t[j][2] \in DOMAIN cdf_table
                        /\ t[j][1] = MassUpTo(t[j][2])
                        /\ j > 1 => t[j - 1][2] < t[j][2]
            /\ ~IsNone(cdf_sample) =>
                  IF hits = {}
                  THEN Get(cdf_sample) = t[Len(t)][2]
                  ELSE \E j \in hits : /\ \A h \in hits : j <= h
                                       /\ Get(cdf_sample) = t[j][2]

\* A draw equal to the cumulative bound of the first entry returned that
\* entry's value, which is not the table's last.
C14_Witness ==
    /\ ~IsNone(cdf_sample)
    /\ Len(Get(cdf_ret).val) = 3
    /\ cdf_u > 0 /\ cdf_u = Get(cdf_ret).val[1][1]
    /\ Get(cdf_sample) = Get(cdf_ret).val[1][2]

\* ------------------------------------------------------------------------
\* C20: for every table build_cdf accepts and every draw u in [0, 1), u = 0
\* included, sample_from_cdf never returns a value whose probability in the
\* table is 0, wherever that value sits in the sorted order.
\* ------------------------------------------------------------------------
C20_NoZeroProbabilitySample ==
    ~IsNone(cdf_sample) => cdf_table[Get(cdf_sample)] # 0


\* ------------------------------------------------------------------------
\* C15: for every simulated day, with sold = min(demand, order_quantity),
\* unsold = max(order_quantity - demand, 0) and unmet =
\* max(demand - order_quantity, 0), the daily profit is sold * selling_price
\* + unsold * salvage_price - order_quantity * cost_price
\* - unmet * (selling_price - cost_price) when include_lost_profit is true
\* and the same without the last term when it is false; no other column
\* depends on the flag, and Cumulative Profit on day d is the sum of the
\* daily profits of days 1..d.
\* ------------------------------------------------------------------------
LessOf(a, b) == IF a < b THEN a ELSE b
Excess(a, b) == IF a > b THEN a - b ELSE 0

C15_DayColumns(r) ==
    /\ r.Ordered = nv_in.order_quantity
    /\ r.Sold = LessOf(r.Demand, r.Ordered)
    /\ r.Unsold = Excess(r.Ordered, r.Demand)
    /\ r.Unmet = Excess(r.Demand, r.Ordered)
    /\ r.Revenue = r.Sold * selling_price
    /\ r.Cost = r.Ordered * cost_price
    /\ r.Salvage = r.Unsold * salvage_price
    /\ r.LostProfit = r.Unmet * (selling_price - cost_price)
    /\ r.DailyProfit =
          r.Sold * selling_price + r.Unsold * salvage_price - r.Ordered * cost_price
          - (IF nv_in.include_lost_profit
             THEN r.Unmet * (selling_price - cost_price) ELSE 0)

C15_DailyProfit ==
    /\ \A d \in 1..Len(nv_records) :
          /\ nv_records[d].Day = d
          /\ C15_DayColumns(nv_records[d])
    /\ ~IsNone(nv_df) =>
          /\ Len(Get(nv_df)) = nv_in.n_days
          /\ \A d \in 1..Len(Get(nv_df)) :
                /\ \A c \in DOMAIN nv_records[d] : Get(nv_df)[d][c] = nv_records[d][c]
                /\ Get(nv_df)[d].CumulativeProfit =
                      Sum([x \in 1..d |-> Get(nv_df)[x].DailyProfit])

\* A returned frame of two days, one with papers left over and one with
\* unmet demand.
C15_Witness ==
    /\ ~IsNone(nv_df)
    /\ Len(Get(nv_df)) = 2
    /\ Get(nv_df)[1].Unsold > 0
    /\ Get(nv_df)[2].Unmet > 0


\* ------------------------------------------------------------------------
\* C19: in the App of the front end, after any sequence of Run and Reset,
\* rows is non-null exactly when summary is non-null; a non-null error means
\* rows and summary are both null, so a failing Run clears the results of an
\* earlier successful one; a successful Run leaves error null; and Reset
\* returns nCustomers, the custom-RN switch, both RN texts, seed, rows,
\* summary and error to their initial values.
\* ------------------------------------------------------------------------
IsRun == runs' = runs + 1
IsReset == runKey' = runKey + 1

C19_Consistent ==
    app_impl = "ts" =>
        /\ IsNone(app_rows) <=> IsNone(app_summary)
        /\ ~IsNone(app_error) => IsNone(app_rows) /\ IsNone(app_summary)

C19_Step ==
    app_impl = "ts" =>
        /\ IsRun /\ ~IsNone(app_rows') => IsNone(app_error')
        /\ IsRun /\ ~IsNone(app_error') => IsNone(app_rows') /\ IsNone(app_summary')
        /\ IsReset =>
              /\ nCustomers' = InitialCustomers
              /\ useCustomRn' = FALSE
              /\ rnIatText' = << >> /\ rnStText' = << >>
              /\ seed' = << >>
              /\ IsNone(app_rows') /\ IsNone(app_summary') /\ IsNone(app_error')

C19_ResultState == C19_Consistent /\ [][C19_Consistent' /\ C19_Step]_vars

\* The App after a Reset and two Runs, the second of which failed.
C19_Witness ==
    /\ app_impl = "ts"
    /\ runKey > 0
    /\ runs >= 2
    /\ ~IsNone(app_error)

\* ------------------------------------------------------------------------
\* C13: with a seed that is not empty and no custom random-number lists,
\* every Run with the same seed and the same number of customers yields the
\* same rnIat/rnSt draws and so the same records, whatever Runs or other
\* interactions came before, in the Streamlit app and in the front end.
\* The first Run after the seed is typed draws from the freshly seeded
\* generator, so every such Run has to yield those draws.
\* ------------------------------------------------------------------------
FreshDraws == DefaultsDrawn(nCustomers, None, None, PrngSeed(seed, 0))
FreshRows ==
    IF app_impl = "ts" THEN simulateQueue(nCustomers, FreshDraws.rnIat, FreshDraws.rnSt).val.rows
    ELSE simulate_queue(nCustomers, FreshDraws.rnIat, FreshDraws.rnSt).val

SeededDefaultRun ==
    /\ IsRun
    /\ Len(Trim(seed)) > 0
    /\ ~useCustomRn
    /\ nCustomers >= 1

C13_Step == SeededDefaultRun => app_rows' = Some(FreshRows)

C13_SeededRunsRepeat == [][C13_Step]_vars

\* The same for the Streamlit script alone.
StreamlitSeededRunsRepeat == [][app_impl = "py" => C13_Step]_vars

====
